---- MODULE Spec2Model ----
(***************************************************************************)
(* Model of the training glue of two text classifiers:                     *)
(*   RNNTextClassifier  (nlp-models/tensorflow/rnn_attn_text_clf.py)       *)
(*   Conv1DClassifier   (tensorflow-models/cnn/conv_1d_text_clf.py)        *)
(* fit / predict are modelled one loop iteration (one sess.run) per step.  *)
(* The graph of Conv1DClassifier is modelled by the tensor shapes its      *)
(* layers produce.  The framework's numeric kernels are external: a run    *)
(* returns values that are fixed functions of what was fed.                *)
(*                                                                         *)
(* Learning rates are kept exactly.  decrease_lr computes                  *)
(*     max_lr * exp(log(min_lr/max_lr) * global_step*batch_size            *)
(*                                      / (n_epoch*len_X))                 *)
(* which is max_lr * (min_lr/max_lr)^(num/den); the record                 *)
(* [max, min, num, den] stands for that real number, max and min in units  *)
(* of 1e-4.  A constant c is [max |-> c, min |-> c, num |-> 0, den |-> 1]. *)
(* Averages are exact fractions <<numerator, denominator>>.                *)
(***************************************************************************)
EXTENDS Integers, Sequences, FiniteSets, TLC

\* ----------------------------------------------------------------- bounds
MaxEpoch == 3
MaxLen == 4
\* longest training set explored with en_shuffle=True (MaxShuffleLen! orders an epoch)
MaxShuffleLen == 3
MaxBatch == 2
MaxVal == 3
MaxSeqLen == 3
MaxFilters == 2

\* ------------------------------------------------------ program constants
\* learning rates in units of 1e-4
RnnMaxLr == 50
RnnMinLr == 10
ConvMaxLr == 30
ConvMinLr == 1
FixedLr == 10
AdamDefaultLr == 10
DefaultKernelSize == 3
DefaultNFilters == 250
EmbeddingDims == 50
HiddenDims == 250
\* keep probabilities in tenths
ConvDefaultKeepProb == 5
KeepOne == 10

VARIABLES
  cls,            \* "rnn" (RNNTextClassifier) or "conv" (Conv1DClassifier)
  stateful,       \* self.stateful
  padding, seq_len, kernel_size, n_filters,   \* Conv1DClassifier hyperparameters
  stage,          \* build_graph position, then "built"
  rows,           \* number of samples the graph is evaluated on (shape model)
  current_layer,  \* shape of self.current_layer
  current_seq_len,\* self.current_seq_len
  pc,             \* position in fit / predict
  n_epoch, batch_size, en_exp_decay, en_shuffle, val_data,  \* arguments
  X, Y,           \* fit's X and Y (rebound by the shuffle)
  epoch, global_step,
  bi,             \* index of the next batch the zipped generators yield
  lr, opt_lr,     \* lr fed to the run; step size the optimizer applied
  loss, acc,      \* fetched from the last training run
  next_state, fed_state, final_state,
  val_loss_list, val_acc_list, log,
  w,              \* trainable variables: number of train_op applications
  fed,            \* <<x, y>> pairs fed to the training runs of this epoch
  X_test, batch_pred_list, pred,
  keep_prob,      \* fit's keep_prob / rnn_keep_prob argument
  fetches,        \* what the last sess.run of the graph was asked to run
  fed_keep,       \* keep probability fed to that run
  inits           \* runs of tf.global_variables_initializer()

hyper == <<cls, stateful, padding, seq_len, kernel_size, n_filters>>
graph == <<stage, rows, current_layer, current_seq_len>>
args == <<n_epoch, batch_size, en_exp_decay, en_shuffle, val_data, keep_prob>>
train == <<X, Y, epoch, global_step, bi, lr, opt_lr, loss, acc, w, fed>>
train_but_bi == <<X, Y, epoch, global_step, lr, opt_lr, loss, acc, w, fed>>
train_but_bi_w == <<X, Y, epoch, global_step, lr, opt_lr, loss, acc, fed>>
rnnst == <<next_state, fed_state, final_state>>
valst == <<val_loss_list, val_acc_list, log>>
predst == <<X_test, batch_pred_list, pred>>
runst == <<fetches, fed_keep>>
vars == <<hyper, graph, pc, args, train, rnnst, valst, predst, runst, inits>>

\* ---------------------------------------------------------------- helpers
Min(a, b) == IF a < b THEN a ELSE b

RECURSIVE SumSeq(_)
SumSeq(s) == IF s = <<>> THEN 0 ELSE Head(s) + SumSeq(Tail(s))

RECURSIVE Concat(_)
Concat(ss) == IF ss = <<>> THEN <<>> ELSE Head(ss) \o Concat(Tail(ss))

\* exact fractions
RatAdd(a, b) == <<a[1] * b[2] + b[1] * a[2], a[2] * b[2]>>
RatEq(a, b) == a[1] * b[2] = b[1] * a[2]

RECURSIVE RatSum(_)
RatSum(l) == IF l = <<>> THEN <<0, 1>> ELSE RatAdd(Head(l), RatSum(Tail(l)))

\* ------------------------------------------------------------- gen_batch
\* for i in range(0, len(arr), batch_size): yield arr[i : i+batch_size]
RECURSIVE gen_batch_from(_, _, _)
gen_batch_from(arr, bs, i) ==
  IF i >= Len(arr) THEN <<>>
  ELSE <<SubSeq(arr, i + 1, Min(i + bs, Len(arr)))>> \o gen_batch_from(arr, bs, i + bs)

\* mutant: range(0, len(arr) - batch_size + 1, batch_size), the partial batch is lost
gen_batch_full_only(arr, bs) ==
  SelectSeq(gen_batch_from(arr, bs, 0), LAMBDA b : Len(b) = bs)

gen_batch(arr, bs) == gen_batch_from(arr, bs, 0)

\* ----------------------------------------------------------- decrease_lr
ConstLr(c) == [max |-> c, min |-> c, num |-> 0, den |-> 1]
NoLr == ConstLr(0)
MaxLrOf(c) == IF c = "rnn" THEN RnnMaxLr ELSE ConvMaxLr
MinLrOf(c) == IF c = "rnn" THEN RnnMinLr ELSE ConvMinLr

\* mutant: math.log(max_lr/min_lr), the schedule grows
decrease_lr_growing(c, decay, gstep, nep, len_X, bs) ==
  IF decay
  THEN [max |-> MaxLrOf(c), min |-> MinLrOf(c), num |-> 0 - gstep * bs, den |-> nep * len_X]
  ELSE ConstLr(FixedLr)

decrease_lr(c, decay, gstep, nep, len_X, bs) ==
  IF decay
  THEN [max |-> MaxLrOf(c), min |-> MinLrOf(c), num |-> gstep * bs, den |-> nep * len_X]
  ELSE ConstLr(FixedLr)

\* The rational value of a learning rate where it has one: max at exponent 0,
\* min at exponent 1; -1 elsewhere (strictly between for 0 < num/den < 1,
\* strictly below min for num/den > 1).
LrPoint(a) ==
  IF a.max = a.min \/ a.num = 0 THEN a.max
  ELSE IF a.num = a.den THEN a.min ELSE -1

LrSameBase(a, b) == a.max = b.max /\ a.min = b.min /\ a.min < a.max
LrEq(a, b) ==
  IF LrSameBase(a, b) THEN a.num * b.den = b.num * a.den
  ELSE LrPoint(a) # -1 /\ LrPoint(a) = LrPoint(b)
\* a < b, for two rates of one schedule (min < max: larger exponent, smaller rate)
LrLess(a, b) == LrSameBase(a, b) /\ a.num * b.den > b.num * a.den
LrInRange(a) == a.max = a.min \/ (a.num >= 0 /\ a.num <= a.den)

\* ------------------------------------------- Conv1DClassifier layer shapes
\* tf.nn.conv1d, stride 1, on (b, seq_len, embedding_dims)
conv1d_shape(inp, pad, ksize, filters) ==
  <<inp[1], IF pad = "VALID" THEN inp[2] - ksize + 1 ELSE inp[2], filters>>

\* self.current_seq_len as add_conv1d records it
conv1d_seq_len(pad, slen, ksize) == IF pad = "VALID" THEN slen - ksize + 1 ELSE slen

expand_dims_1(inp) == <<inp[1], 1>> \o Tail(inp)

\* tf.nn.max_pool on (b, 1, width, channels), ksize = strides = [1,1,k,1]
max_pool_shape(inp, k, pad) ==
  <<inp[1], inp[2],
    IF pad = "VALID" THEN ((inp[3] - k) \div k) + 1 ELSE (inp[3] + k - 1) \div k,
    inp[4]>>

\* tf.squeeze without axis: every dimension of size 1 is removed
squeeze(inp) == SelectSeq(inp, LAMBDA d : d # 1)

\* shape of self.current_layer after add_global_maxpool
global_maxpool_shape(inp, k, pad) == squeeze(max_pool_shape(expand_dims_1(inp), k, pad))

\* tf.matmul(current_layer, W): current_layer must be a matrix whose columns match W
matmul_ok(inp, w_shape) == Len(inp) = 2 /\ inp[2] = w_shape[1]

\* shape the pooling layer hands to add_fc when the graph runs on b samples
PooledShape(b, pad, slen, ksize, filters) ==
  global_maxpool_shape(conv1d_shape(<<b, slen, EmbeddingDims>>, pad, ksize, filters),
                       conv1d_seq_len(pad, slen, ksize), pad)

\* a run of the graph on b samples raises (InvalidArgumentError) or not
RunOk(c, b, pad, slen, ksize, filters) ==
  c = "rnn" \/ matmul_ok(PooledShape(b, pad, slen, ksize, filters), <<filters, HiddenDims>>)

\* --------------------------------------------------- what a run returns
LabelOf(x) == x
Samples(n) == [i \in 1..n |-> i]
Labels(n) == [i \in 1..n |-> LabelOf(i)]

zero_state(n) == [rows |-> n, hist |-> <<>>]
NoState == zero_state(0)
\* final_state of the graph run on batch number k from initial state s
FinalState(s, b, k) == [rows |-> b, hist |-> Append(s.hist, k)]

\* logits row of sample x under variables wts from initial state s
Forward(x, wts, s) == [x |-> x, w |-> wts, init |-> s.hist]
ArgMax(row) == IF (row.x + row.w + Len(row.init)) % 2 = 0 THEN LabelOf(row.x) ELSE 0
SampleLoss(row, y) == row.x + (IF ArgMax(row) = y THEN 0 ELSE 2)
Correct(row, y) == IF ArgMax(row) = y THEN 1 ELSE 0

BatchRows(xb, wts, s) == [i \in 1..Len(xb) |-> Forward(xb[i], wts, s)]
\* tf.reduce_mean over the batch
BatchLoss(xb, yb, wts, s) ==
  <<SumSeq([i \in 1..Len(xb) |-> SampleLoss(Forward(xb[i], wts, s), yb[i])]), Len(xb)>>
BatchAcc(xb, yb, wts, s) ==
  <<SumSeq([i \in 1..Len(xb) |-> Correct(Forward(xb[i], wts, s), yb[i])]), Len(xb)>>

\* sum(l) / len(l)
list_avg(l) == LET t == RatSum(l) IN <<t[1], t[2] * Len(l)>>

\* value fetched from the training run at global step g
TrainLoss(g) == [of |-> "loss", step |-> g]
TrainAcc(g) == [of |-> "acc", step |-> g]
NoValue == [of |-> "none", step |-> 0]

EmptyLog == [loss |-> <<>>, acc |-> <<>>, val_loss |-> <<>>, val_acc |-> <<>>]
ValGiven == val_data # <<>>

\* sklearn.utils.shuffle(X, Y): one permutation applied to both arrays
Perms(n) == {p \in [1..n -> 1..n] : \A i, j \in 1..n : i # j => p[i] # p[j]}
shuffle_X(xs, p) == [i \in 1..Len(xs) |-> xs[p[i]]]
\* mutant: Y is left in its order while X is permuted
shuffle_Y_unpermuted(ys, p) == ys
shuffle_Y(ys, p) == [i \in 1..Len(ys) |-> ys[p[i]]]

\* initial state fed to a run: the stateful branch feeds next_state, the other
\* branch leaves init_state to zero_state(len(batch))
StatefulBranch(c, st, xb, bs) == c = "rnn" /\ st /\ Len(xb) = bs
FedState(c, st, xb, bs, ns) ==
  IF c # "rnn" THEN NoState
  ELSE IF StatefulBranch(c, st, xb, bs) THEN ns ELSE zero_state(Len(xb))

\* step size train_op applies: RNNTextClassifier builds AdamOptimizer() with no
\* learning rate, Conv1DClassifier builds AdamOptimizer(self.lr)
OptimizerLr(c, fed_lr) == IF c = "rnn" THEN ConstLr(AdamDefaultLr) ELSE fed_lr

\* ------------------------------------------------- what a run is asked to run
\* sb: the stateful branch, which also fetches final_state
TrainFetches(sb) ==
  IF sb THEN <<"train_op", "final_state", "loss", "acc">> ELSE <<"train_op", "loss", "acc">>

\* mutant: the validation run is given the training run's fetch list
ValFetches_with_train_op(sb) == TrainFetches(sb)

ValFetches(sb) == IF sb THEN <<"loss", "acc", "final_state">> ELSE <<"loss", "acc">>
PredictFetches(sb) == IF sb THEN <<"logits", "final_state">> ELSE <<"logits">>

Runs(f, op) == \E k \in 1..Len(f) : f[k] = op
\* the trainable variables after a run: only train_op assigns them
RunVariables(wts, f) == IF Runs(f, "train_op") THEN wts + 1 ELSE wts

\* ------------------------------------------------------------ build_graph
\* Conv1DClassifier.build_graph followed on the shapes a feed of `rows`
\* samples produces (specification SpecShape)
FitIdle ==
  /\ pc = "idle" /\ n_epoch = 0 /\ batch_size = 0
  /\ en_exp_decay = FALSE /\ en_shuffle = FALSE /\ val_data = <<>>
  /\ X = <<>> /\ Y = <<>> /\ epoch = 0 /\ global_step = 0 /\ bi = 0
  /\ lr = NoLr /\ opt_lr = NoLr /\ loss = NoValue /\ acc = NoValue
  /\ next_state = NoState /\ fed_state = NoState /\ final_state = NoState
  /\ val_loss_list = <<>> /\ val_acc_list = <<>> /\ log = EmptyLog
  /\ w = 0 /\ fed = <<>>
  /\ X_test = <<>> /\ batch_pred_list = <<>> /\ pred = <<>>
  /\ keep_prob = 0 /\ fetches = <<>> /\ fed_keep = 0 /\ inits = 0

InitShape ==
  /\ cls = "conv" /\ stateful = FALSE
  /\ padding \in {"VALID", "SAME"}
  /\ seq_len \in 1..MaxSeqLen
  /\ kernel_size \in 1..MaxSeqLen
  /\ padding = "VALID" => kernel_size <= seq_len
  /\ n_filters \in 1..MaxFilters
  /\ rows \in 1..MaxBatch + 1
  /\ stage = "input" /\ current_layer = <<rows, seq_len>> /\ current_seq_len = 0
  /\ FitIdle

fitvars == <<pc, args, train, rnnst, valst, predst, runst, inits>>

add_word_embedding ==
  /\ stage = "input"
  /\ current_layer' = Append(current_layer, EmbeddingDims)
  /\ stage' = "embedding"
  /\ UNCHANGED <<hyper, rows, current_seq_len, fitvars>>

add_conv1d ==
  /\ stage = "embedding"
  /\ current_layer' = conv1d_shape(current_layer, padding, kernel_size, n_filters)
  /\ current_seq_len' = conv1d_seq_len(padding, seq_len, kernel_size)
  /\ stage' = "conv"
  /\ UNCHANGED <<hyper, rows, fitvars>>

add_global_maxpool ==
  /\ stage = "conv"
  /\ current_layer' = global_maxpool_shape(current_layer, current_seq_len, padding)
  /\ stage' = "pool"
  /\ UNCHANGED <<hyper, rows, current_seq_len, fitvars>>

add_fc ==
  /\ stage = "pool"
  /\ IF matmul_ok(current_layer, <<n_filters, HiddenDims>>)
     THEN /\ current_layer' = <<current_layer[1], HiddenDims>>
          /\ stage' = "fc"
     ELSE /\ current_layer' = current_layer
          /\ stage' = "error"
  /\ UNCHANGED <<hyper, rows, current_seq_len, fitvars>>

NextShape == add_word_embedding \/ add_conv1d \/ add_global_maxpool \/ add_fc

SpecShape == InitShape /\ [][NextShape]_vars

\* ------------------------------------------------------------ fit, predict
\* a constructed classifier
Init ==
  /\ cls \in {"rnn", "conv"}
  /\ stateful \in BOOLEAN
  /\ cls = "conv" => ~stateful
  /\ padding \in {"VALID", "SAME"}
  /\ cls = "rnn" => padding = "VALID"
  /\ seq_len = MaxSeqLen /\ kernel_size = DefaultKernelSize /\ n_filters = DefaultNFilters
  /\ stage = "built" /\ rows = 0 /\ current_layer = <<>>
  /\ current_seq_len = conv1d_seq_len(padding, seq_len, kernel_size)
  /\ FitIdle

\* fit(X, Y, val_data, n_epoch, batch_size, en_exp_decay, en_shuffle), to the
\* top of the epoch loop
CallFit ==
  /\ pc = "idle"
  /\ \E ne \in 1..MaxEpoch, bs \in 1..MaxBatch, n \in 1..MaxLen, nv \in 0..MaxVal,
        dec \in BOOLEAN, sh \in BOOLEAN, kp \in {ConvDefaultKeepProb, KeepOne} :
       /\ sh => n <= MaxShuffleLen
       /\ keep_prob' = kp
       /\ n_epoch' = ne /\ batch_size' = bs
       /\ en_exp_decay' = dec /\ en_shuffle' = sh
       /\ X' = Samples(n) /\ Y' = Labels(n)
       /\ val_data' = IF nv = 0 THEN <<>> ELSE <<Samples(nv), Labels(nv)>>
  /\ log' = EmptyLog /\ global_step' = 0 /\ epoch' = 0
  /\ w' = 0 /\ inits' = inits + 1
  /\ pc' = "epoch"
  /\ UNCHANGED <<hyper, graph, bi, lr, opt_lr, loss, acc, fed, rnnst,
                 val_loss_list, val_acc_list, predst, runst>>

\* for epoch in range(n_epoch): shuffle, zero the carried state
BeginEpoch ==
  /\ pc = "epoch" /\ epoch < n_epoch
  /\ IF en_shuffle
     THEN \E p \in Perms(Len(X)) : X' = shuffle_X(X, p) /\ Y' = shuffle_Y(Y, p)
     ELSE UNCHANGED <<X, Y>>
  /\ next_state' = IF cls = "rnn" THEN zero_state(batch_size) ELSE next_state
  /\ bi' = 0 /\ fed' = <<>>
  /\ pc' = "train"
  /\ UNCHANGED <<hyper, graph, args, epoch, global_step, lr, opt_lr, loss, acc, w,
                 fed_state, final_state, valst, predst, runst, inits>>

\* one iteration of the training loop
TrainStep ==
  /\ pc = "train" /\ bi < Len(gen_batch(X, batch_size))
  /\ LET X_batch == gen_batch(X, batch_size)[bi + 1]
         Y_batch == gen_batch(Y, batch_size)[bi + 1]
         new_lr == decrease_lr(cls, en_exp_decay, global_step, n_epoch, Len(X), batch_size)
         init == FedState(cls, stateful, X_batch, batch_size, next_state)
     IN /\ lr' = new_lr
        /\ fetches' = TrainFetches(StatefulBranch(cls, stateful, X_batch, batch_size))
        /\ fed_keep' = keep_prob
        /\ fed' = fed \o [i \in 1..Len(X_batch) |-> <<X_batch[i], Y_batch[i]>>]
        /\ IF RunOk(cls, Len(X_batch), padding, seq_len, kernel_size, n_filters)
           THEN /\ opt_lr' = OptimizerLr(cls, new_lr)
                /\ w' = RunVariables(w, fetches')
                /\ loss' = TrainLoss(global_step) /\ acc' = TrainAcc(global_step)
                /\ fed_state' = init
                /\ final_state' = IF cls = "rnn"
                                  THEN FinalState(init, Len(X_batch), bi + 1)
                                  ELSE final_state
                /\ next_state' = IF StatefulBranch(cls, stateful, X_batch, batch_size)
                                 THEN FinalState(init, Len(X_batch), bi + 1)
                                 ELSE next_state
                /\ global_step' = global_step + 1
                /\ bi' = bi + 1
                /\ pc' = "train"
           ELSE /\ pc' = "error"
                /\ UNCHANGED <<opt_lr, w, loss, acc, rnnst, global_step, bi>>
  /\ UNCHANGED <<hyper, graph, args, X, Y, epoch, valst, predst, inits>>

\* mutant: the validation entries are appended without the val_data test
AppendLog_always_val(vl, va) ==
  log' = [loss |-> Append(log.loss, loss), acc |-> Append(log.acc, acc),
          val_loss |-> Append(log.val_loss, vl), val_acc |-> Append(log.val_acc, va)]

\* log['loss'].append(loss) ... with the epoch's validation averages, if any
AppendLog(vl, va) ==
  log' = [loss |-> Append(log.loss, loss), acc |-> Append(log.acc, acc),
          val_loss |-> IF ValGiven THEN Append(log.val_loss, vl) ELSE log.val_loss,
          val_acc |-> IF ValGiven THEN Append(log.val_acc, va) ELSE log.val_acc]

\* the training loop is exhausted
TrainLoopEnd ==
  /\ pc = "train" /\ bi = Len(gen_batch(X, batch_size))
  /\ IF ValGiven
     THEN /\ val_loss_list' = <<>> /\ val_acc_list' = <<>>
          /\ next_state' = IF cls = "rnn" THEN zero_state(batch_size) ELSE next_state
          /\ bi' = 0
          /\ pc' = "val"
          /\ UNCHANGED <<log, epoch>>
     ELSE /\ AppendLog(NoValue, NoValue)
          /\ epoch' = epoch + 1
          /\ pc' = "epoch"
          /\ UNCHANGED <<val_loss_list, val_acc_list, next_state, bi>>
  /\ UNCHANGED <<hyper, graph, args, X, Y, global_step, lr, opt_lr, loss, acc, w, fed,
                 fed_state, final_state, predst, runst, inits>>

\* one iteration of the validation loop
ValStep ==
  /\ pc = "val" /\ bi < Len(gen_batch(val_data[1], batch_size))
  /\ LET X_test_batch == gen_batch(val_data[1], batch_size)[bi + 1]
         Y_test_batch == gen_batch(val_data[2], batch_size)[bi + 1]
         init == FedState(cls, stateful, X_test_batch, batch_size, next_state)
     IN /\ fetches' = ValFetches(StatefulBranch(cls, stateful, X_test_batch, batch_size))
        /\ fed_keep' = KeepOne
        /\ IF RunOk(cls, Len(X_test_batch), padding, seq_len, kernel_size, n_filters)
           THEN /\ w' = RunVariables(w, fetches')
                /\ val_loss_list' = Append(val_loss_list, BatchLoss(X_test_batch, Y_test_batch, w, init))
                /\ val_acc_list' = Append(val_acc_list, BatchAcc(X_test_batch, Y_test_batch, w, init))
                /\ fed_state' = init
                /\ final_state' = IF cls = "rnn"
                                  THEN FinalState(init, Len(X_test_batch), bi + 1)
                                  ELSE final_state
                /\ next_state' = IF StatefulBranch(cls, stateful, X_test_batch, batch_size)
                                 THEN FinalState(init, Len(X_test_batch), bi + 1)
                                 ELSE next_state
                /\ bi' = bi + 1
                /\ pc' = "val"
           ELSE /\ pc' = "error"
                /\ UNCHANGED <<val_loss_list, val_acc_list, rnnst, bi, w>>
  /\ UNCHANGED <<hyper, graph, args, train_but_bi_w, log, predst, inits>>

\* the validation loop is exhausted: average, append to the log
ValLoopEnd ==
  /\ pc = "val" /\ bi = Len(gen_batch(val_data[1], batch_size))
  /\ AppendLog(list_avg(val_loss_list), list_avg(val_acc_list))
  /\ epoch' = epoch + 1
  /\ pc' = "epoch"
  /\ UNCHANGED <<hyper, graph, args, X, Y, global_step, bi, lr, opt_lr, loss, acc, w, fed,
                 rnnst, val_loss_list, val_acc_list, predst, runst, inits>>

\* return log
FitReturn ==
  /\ pc = "epoch" /\ epoch = n_epoch
  /\ pc' = "done"
  /\ X' = <<>> /\ Y' = <<>> /\ fed' = <<>> /\ bi' = 0
  /\ val_loss_list' = <<>> /\ val_acc_list' = <<>>
  /\ next_state' = NoState /\ fed_state' = NoState /\ final_state' = NoState
  /\ UNCHANGED <<hyper, graph, args, epoch, global_step, lr, opt_lr, loss, acc, w, log, predst,
                 runst, inits>>

\* predict(X_test, batch_size), to the top of its loop
CallPredict ==
  /\ pc = "done"
  /\ \E n \in 1..MaxLen, bs \in 1..MaxBatch :
       /\ X_test' = Samples(n)
       /\ batch_size' = bs
       /\ next_state' = IF cls = "rnn" THEN zero_state(bs) ELSE next_state
  /\ batch_pred_list' = <<>> /\ pred' = <<>> /\ bi' = 0
  /\ pc' = "predict"
  /\ UNCHANGED <<hyper, graph, n_epoch, en_exp_decay, en_shuffle, val_data, keep_prob,
                 runst, inits,
                 X, Y, epoch, global_step, lr, opt_lr, loss, acc, w, fed,
                 fed_state, final_state, valst>>

\* one iteration of predict's loop
PredictStep ==
  /\ pc = "predict" /\ bi < Len(gen_batch(X_test, batch_size))
  /\ LET X_test_batch == gen_batch(X_test, batch_size)[bi + 1]
         init == FedState(cls, stateful, X_test_batch, batch_size, next_state)
     IN /\ fetches' = PredictFetches(StatefulBranch(cls, stateful, X_test_batch, batch_size))
        /\ fed_keep' = KeepOne
        /\ IF RunOk(cls, Len(X_test_batch), padding, seq_len, kernel_size, n_filters)
           THEN /\ w' = RunVariables(w, fetches')
                /\ batch_pred_list' = Append(batch_pred_list, BatchRows(X_test_batch, w, init))
                /\ fed_state' = init
                /\ final_state' = IF cls = "rnn"
                                  THEN FinalState(init, Len(X_test_batch), bi + 1)
                                  ELSE final_state
                /\ next_state' = IF StatefulBranch(cls, stateful, X_test_batch, batch_size)
                                 THEN FinalState(init, Len(X_test_batch), bi + 1)
                                 ELSE next_state
                /\ bi' = bi + 1
                /\ pc' = "predict"
           ELSE /\ pc' = "predict_error"
                /\ UNCHANGED <<batch_pred_list, rnnst, bi, w>>
  /\ UNCHANGED <<hyper, graph, args, train_but_bi_w, valst, X_test, pred, inits>>

\* np.argmax(np.vstack(batch_pred_list), 1)  /  np.concatenate(batch_pred_list)
PredictResult(c, l) ==
  IF c = "rnn" THEN [i \in 1..Len(Concat(l)) |-> ArgMax(Concat(l)[i])] ELSE Concat(l)

PredictReturn ==
  /\ pc = "predict" /\ bi = Len(gen_batch(X_test, batch_size))
  /\ pred' = PredictResult(cls, batch_pred_list)
  /\ pc' = "predicted"
  /\ UNCHANGED <<hyper, graph, args, train, rnnst, valst, X_test, batch_pred_list,
                 runst, inits>>

Next ==
  \/ CallFit \/ BeginEpoch \/ TrainStep \/ TrainLoopEnd \/ ValStep \/ ValLoopEnd
  \/ FitReturn \/ CallPredict \/ PredictStep \/ PredictReturn

Spec == Init /\ [][Next]_vars

\* ================================================================= claims
NumBatches(arr) == Len(gen_batch(arr, batch_size))
Last(q) == q[Len(q)]
InFit == pc \in {"epoch", "train", "val", "error"}

\* C1: with stateful=True, within one pass (a training loop, a validation loop,
\* a predict call) every run after the first is fed, as initial state, the final
\* state the run before it produced.
C1_StateCarried ==
  [][(cls = "rnn" /\ stateful /\ pc \in {"train", "val", "predict"}
        /\ bi >= 1 /\ bi' = bi + 1)
      => fed_state' = final_state]_vars

\* C2: in RNNTextClassifier.fit the step size train_op applies at a training step
\* is the learning rate decrease_lr returns for that step's global_step.
C2_OptimizerUsesDecayedLr ==
  [][(cls = "rnn" /\ pc = "train" /\ global_step' = global_step + 1)
      => LrEq(opt_lr', decrease_lr(cls, en_exp_decay, global_step, n_epoch, Len(X),
                                   batch_size))]_vars

C3_TrainStepTaken == pc = "train" /\ (global_step' = global_step + 1 \/ pc' = "error")

\* C3: in Conv1DClassifier.fit with en_exp_decay=True the learning rate of the
\* first training step is max_lr, the rate of every later training step is
\* strictly smaller than the rate of the step before it (within an epoch and
\* across epochs), the rate computed is the one the optimizer applies, and
\* global_step grows by one per training step and is never reset.
C3_ConvLrStrictlyDecreasing ==
  [][/\ (cls = "conv" /\ en_exp_decay /\ C3_TrainStepTaken)
          => /\ global_step = 0 => LrEq(lr', ConstLr(ConvMaxLr))
             /\ global_step > 0 => LrLess(lr', lr)
             /\ global_step' = global_step + 1 => opt_lr' = lr'
     /\ (cls = "conv" /\ InFit)
          => global_step' \in {global_step, global_step + 1}]_vars

C3_Witness ==
  /\ cls = "conv" /\ en_exp_decay /\ pc = "train"
  /\ epoch >= 1 /\ bi = 2 /\ global_step >= 4
  /\ lr.num > 0 /\ opt_lr = lr

C4_Partition(arr, bs) ==
  LET b == gen_batch(arr, bs)
  IN /\ Concat(b) = arr
     /\ Len(b) = (Len(arr) + bs - 1) \div bs
     /\ \A k \in 1..Len(b) :
          /\ Len(b[k]) >= 1 /\ Len(b[k]) <= bs
          /\ k < Len(b) => Len(b[k]) = bs

\* C4: gen_batch(arr, batch_size), batch_size >= 1, cuts arr into consecutive
\* slices: their concatenation is arr, each is non-empty, each but the last has
\* batch_size elements, the last has 1..batch_size, and there are
\* ceil(len(arr)/batch_size) of them (none for an empty arr).
C4_GenBatchPartitions ==
  batch_size >= 1 =>
    /\ C4_Partition(X, batch_size) /\ C4_Partition(Y, batch_size)
    /\ C4_Partition(X_test, batch_size)
    /\ ValGiven => C4_Partition(val_data[1], batch_size) /\ C4_Partition(val_data[2], batch_size)

C4_Witness ==
  /\ pc = "train" /\ batch_size = 2 /\ Len(X) = 3 /\ bi = 2
  /\ Len(fed) = 3 /\ Len(gen_batch(X, batch_size)[2]) = 1

C5_Total(l) == <<SumSeq([k \in 1..Len(l) |-> l[k][1]]), SumSeq([k \in 1..Len(l) |-> l[k][2]])>>

\* C5: the val_loss and val_acc appended to the log for an epoch are the
\* per-sample averages over the validation data: (sum of the per-sample losses)
\* / (number of samples) and (number of correct samples) / (number of samples).
\* A batch value <<s, b>> is the batch's per-sample sum s over its size b, so
\* the per-sample totals are the sums of the components over the batches.
C5_ValAveragesPerSample ==
  (pc = "epoch" /\ epoch >= 1 /\ ValGiven)
    => /\ RatEq(Last(log.val_loss), C5_Total(val_loss_list))
       /\ RatEq(Last(log.val_acc), C5_Total(val_acc_list))

\* C6: the log has one loss and one acc entry per completed epoch, in epoch
\* order, one val_loss and one val_acc entry per completed epoch when val_data
\* is given and none when it is None; the log fit returns has n_epoch entries.
C6_LogLengths ==
  /\ (InFit \/ pc = "done")
       => /\ Len(log.loss) = epoch /\ Len(log.acc) = epoch
          /\ Len(log.val_loss) = (IF ValGiven THEN epoch ELSE 0)
          /\ Len(log.val_acc) = (IF ValGiven THEN epoch ELSE 0)
          /\ \A k \in 1..Len(log.loss) :
               /\ log.loss[k].of = "loss" /\ log.acc[k].of = "acc"
               /\ log.acc[k].step = log.loss[k].step
               /\ k < Len(log.loss) => log.loss[k].step < log.loss[k + 1].step
          /\ (pc = "epoch" /\ epoch >= 1) => Last(log.loss).step = global_step - 1
  /\ pc \in {"done", "predict", "predicted", "predict_error"}
       => /\ Len(log.loss) = n_epoch /\ Len(log.acc) = n_epoch
          /\ Len(log.val_loss) = (IF ValGiven THEN n_epoch ELSE 0)
          /\ Len(log.val_acc) = (IF ValGiven THEN n_epoch ELSE 0)

C6_Witness ==
  /\ pc = "done" /\ n_epoch = MaxEpoch /\ ValGiven
  /\ Len(log.loss) = MaxEpoch /\ Len(log.val_loss) = MaxEpoch

\* C7: predict returns len(X_test) results in input order, the i-th being the
\* model output for X_test[i] (its class index in RNNTextClassifier, its logits
\* row in Conv1DClassifier), for every non-empty X_test and batch_size >= 1.
C7_PredictInOrder ==
  /\ pc # "predict_error"
  /\ pc = "predicted"
       => /\ Len(pred) = Len(X_test)
          /\ Len(Concat(batch_pred_list)) = Len(X_test)
          /\ \A i \in 1..Len(X_test) :
               LET row == Concat(batch_pred_list)[i]
               IN /\ row.x = X_test[i] /\ row.w = w
                  /\ pred[i] = (IF cls = "rnn" THEN ArgMax(row) ELSE row)

\* C8: for every batch of b >= 1 samples and both paddings, add_global_maxpool
\* leaves a tensor of shape (b, n_filters), which add_fc's matmul accepts.
C8_PooledShape ==
  /\ stage = "pool" => current_layer = <<rows, n_filters>>
  /\ stage # "error"

\* C9: with en_exp_decay=True the learning rate of every training step lies in
\* [min_lr, max_lr], that is global_step * batch_size <= n_epoch * len(X).
C9_LrInRange == (en_exp_decay /\ lr # NoLr) => LrInRange(lr)

C10_TrainLoopOver ==
  \/ pc = "val"
  \/ pc = "epoch" /\ epoch >= 1
  \/ pc = "train" /\ bi = NumBatches(X)

\* C10: with en_shuffle=True every sample fed to a training step is fed with
\* its own label, no sample is fed twice in an epoch, and when the training
\* loop of an epoch ends every original pair has been fed exactly once.
C10_PairsKept ==
  en_shuffle =>
    /\ \A i \in 1..Len(fed) :
         /\ fed[i][2] = LabelOf(fed[i][1])
         /\ fed[i][1] \in 1..Len(X)
         /\ \A j \in 1..Len(fed) : i # j => fed[i][1] # fed[j][1]
    /\ C10_TrainLoopOver =>
         /\ Len(fed) = Len(X)
         /\ {fed[i][1] : i \in 1..Len(fed)} = 1..Len(X)
    /\ InFit => /\ Len(X) = Len(Y)
                /\ \A i \in 1..Len(X) : Y[i] = LabelOf(X[i])

C10_Witness ==
  /\ en_shuffle /\ pc = "train" /\ epoch >= 1 /\ bi = NumBatches(X) /\ bi >= 2
  /\ Len(fed) = Len(X) /\ Len(X) >= 3
  /\ X # Samples(Len(X))

\* C11: the validation loop of fit and every predict call leave the trainable
\* variables unchanged: their runs do not run train_op and feed keep
\* probability 1.0; the variables change only in a training step, which runs
\* train_op; the variables are initialised once per fit call, on entry, and not
\* again between epochs.
C11_VariablesFrame ==
  [][/\ pc \in {"val", "predict"}
          => /\ w' = w /\ inits' = inits
             /\ ~Runs(fetches', "train_op")
             /\ fed_keep' = KeepOne
     /\ w' # w => /\ pc = "train" /\ pc' = "train"
                  /\ Runs(fetches', "train_op") /\ w' = w + 1
     /\ (pc = "train" /\ global_step' = global_step + 1) => w' = w + 1
     /\ inits' # inits => pc = "idle" /\ inits' = 1 /\ w' = 0
     /\ pc # "idle" => inits' = inits /\ inits = 1]_vars

C11_Witness ==
  /\ pc = "predicted" /\ ValGiven /\ n_epoch >= 2 /\ inits = 1
  /\ Len(log.val_loss) = n_epoch /\ Len(pred) >= 2
  /\ w = global_step /\ w >= 2
  /\ ~Runs(fetches, "train_op") /\ fed_keep = KeepOne /\ keep_prob = ConvDefaultKeepProb

====
